---- MODULE Spec2Model ----
(***************************************************************************)
(* Model of funcs/BernGrid.py: bern_grid, the grid Bayesian update for a   *)
(* Bernoulli likelihood, and the module-level variable Data it reads.      *)
(*                                                                         *)
(* Reading of the source.  The file is a partly finished port of the R     *)
(* function BernGrid.  A name denotes the binding the module gives it:     *)
(* theta, p_theta, real_data, credib and n_to_plot are the parameters      *)
(* (line 3); Data is the module-level variable assigned at line 133, and   *)
(* line 37 reads that variable, not the parameter real_data.  An R-spelt   *)
(* name the module binds nowhere (Theta, pTheta, nToPlot, pThetaGivenData, *)
(* pDataGivenTheta) denotes the variable it was renamed to.  `^` is the    *)
(* power of the formula at line 41, `*` and `/` on arrays follow numpy     *)
(* (broadcasting, IEEE division: x/0 is inf, 0/0 is nan, no exception).    *)
(* Rendering calls draw and change no variable; a statement of the         *)
(* plotting block that produces no value leaves its variable unbound.      *)
(*                                                                         *)
(* Numbers are exact non-negative rationals <<num, den>> extended with     *)
(* Inf = <<1,0>> and NaN = <<0,0>>; float rounding is not modelled.        *)
(***************************************************************************)
EXTENDS Integers, Sequences, FiniteSets

\* ---- bounds of the model ----
GridDen == 2
MaxN == 3
MaxObs == 2
MaxData == 1
MaxPlot == 2

\* ---- extended rational arithmetic (the float operations of lines 41-45) ----
Zero == <<0, 1>>
One == <<1, 1>>
Inf == <<1, 0>>
NaN == <<0, 0>>
Unset == <<>>
None == 0

RECURSIVE GCD(_, _)
GCD(a, b) == IF b = 0 THEN a ELSE GCD(b, a % b)

Norm(n, d) ==
  IF d = 0 THEN (IF n = 0 THEN NaN ELSE Inf)
  ELSE IF n = 0 THEN Zero
  ELSE LET g == GCD(n, d) IN <<n \div g, d \div g>>

IsNaN(x) == x = NaN
IsFinite(x) == x[2] # 0

RMul(x, y) == Norm(x[1] * y[1], x[2] * y[2])

RDiv(x, y) == Norm(x[1] * y[2], x[2] * y[1])

RAdd(x, y) ==
  IF IsNaN(x) \/ IsNaN(y) THEN NaN
  ELSE IF x = Inf \/ y = Inf THEN Inf
  ELSE Norm(x[1] * y[2] + y[1] * x[2], x[2] * y[2])

\* 1 - x for x in [0,1]
OneMinus(x) == Norm(x[2] - x[1], x[2])

RECURSIVE RPowNat(_, _)
RPowNat(x, e) == IF e = 0 THEN One ELSE RMul(x, RPowNat(x, e - 1))

\* x ^ e for an integer e of either sign; 0^0 = 1, 0^(-k) = Inf
RPow(x, e) == IF e >= 0 THEN RPowNat(x, e) ELSE RDiv(One, RPowNat(x, 0 - e))

\* comparisons are false as soon as a NaN is involved
RGeq(x, y) == ~IsNaN(x) /\ ~IsNaN(y) /\ x[1] * y[2] >= y[1] * x[2]
RGt(x, y) == ~IsNaN(x) /\ ~IsNaN(y) /\ x[1] * y[2] > y[1] * x[2]

\* ---- array operations ----
RECURSIVE Sum(_)
Sum(v) == IF v = <<>> THEN Zero ELSE RAdd(Head(v), Sum(Tail(v)))

\* numpy broadcasting of two 1-d arrays
Broadcastable(a, b) == Len(a) = Len(b) \/ Len(a) = 1 \/ Len(b) = 1

At(a, i) == IF Len(a) = 1 THEN a[1] ELSE a[i]

BLen(a, b) == IF Len(a) >= Len(b) THEN Len(a) ELSE Len(b)

VecMul(a, b) == [i \in 1..BLen(a, b) |-> RMul(At(a, i), At(b, i))]

VecDivScalar(a, s) == [i \in 1..Len(a) |-> RDiv(a[i], s)]

\* np.count_nonzero(x == 1)
CountOnes(x) == Cardinality({i \in 1..Len(x) : x[i] = 1})

\* ---- the input sets ----
RECURSIVE SeqOfSet(_)
SeqOfSet(S) ==
  IF S = {} THEN <<>>
  ELSE LET m == CHOOSE x \in S : \A y \in S : x <= y
       IN <<Norm(m, GridDen)>> \o SeqOfSet(S \ {m})

\* increasing grids of 1..MaxN values k/GridDen in [0,1]
Grids == {SeqOfSet(S) : S \in {T \in SUBSET (0..GridDen) : T # {} /\ Cardinality(T) <= MaxN}}

\* priors of length n: non-negative masses that sum to 1, uniform on a
\* non-empty support or rising linearly over the grid
PriorsOfLen(n) ==
  {[i \in 1..n |-> IF i \in S THEN Norm(1, Cardinality(S)) ELSE Zero] :
     S \in (SUBSET (1..n)) \ {{}}}
  \cup {[i \in 1..n |-> Norm(2 * i, n * (n + 1))]}

\* a vector of k copies of x: rep(x, k)
RECURSIVE Rep(_, _)
Rep(x, k) == IF k = 0 THEN <<>> ELSE <<x>> \o Rep(x, k - 1)

\* the values of Data: c(rep(0,0), rep(1,b)), no 0's and b 1's
DataVectors == {Rep(0, 0) \o Rep(1, b) : b \in 0..MaxData}

Flips(m) == UNION {[1..n -> {0, 1}] : n \in 0..m}

CredibSet == {<<1, 2>>, <<19, 20>>}

PlotSet == {None} \cup (1..MaxPlot)


\* ---- module-level state and the variables of bern_grid ----
VARIABLES Data, theta, p_theta, real_data, credib, n_to_plot, ones, N,
          p_data_given_theta, p_data, p_theta_given_data, thinIdx, meanTheta,
          meanThetaGivenData, HDIinfo, outcome

vars == <<Data, theta, p_theta, real_data, credib, n_to_plot, ones, N,
          p_data_given_theta, p_data, p_theta_given_data, thinIdx, meanTheta,
          meanThetaGivenData, HDIinfo, outcome>>

\* ---- the steps of bern_grid ----

\* a count that stops at the first 0 of the argument
OnesLeadingRun(D, rd) ==
  Cardinality({i \in 1..Len(rd) : \A j \in 1..i : rd[j] = 1})

\* line 37: the number of 1's, counted in the module-level Data
Ones(D, rd) == CountOnes(D)

\* line 38: the number of flips, the length of the argument
NFlips(D, rd) == Len(rd)

\* line 41: theta^ones * (1-theta)^(N-ones) at every grid point
Likelihood(th, z, n) ==
  [i \in 1..Len(th) |-> RMul(RPow(th[i], z), RPow(OneMinus(th[i]), n - z))]

\* line 44: the evidence
Evidence(lik, pth) == Sum(VecMul(lik, pth))

\* line 45: the posterior; the division is carried out whatever p_data is
Posterior(lik, pth, pd) == VecDivScalar(VecMul(lik, pth), pd)

\* np.arange(start, stop, step)
RECURSIVE Arange(_, _, _)
Arange(start, stop, step) ==
  IF start >= stop THEN <<>> ELSE <<start>> \o Arange(start + step, stop, step)

\* lines 52-59: the thinned index set (0-based indices); no value when
\* n_to_plot is None or the grid has at most n_to_plot teeth
Thin(nteeth, nToPlot) ==
  IF nToPlot = None THEN Unset
  ELSE IF nteeth > nToPlot THEN
    LET a == Arange(1, nteeth, nteeth \div nToPlot) IN
    IF Len(a) < nteeth THEN Append(a, nteeth)
    ELSE SubSeq(a, 2, Len(a))
  ELSE Unset

\* lines 62 and 87: the mean of the grid under a mass vector
Mean(th, mass) == Sum(VecMul(th, mass))

\* HDIofGrid (line 101; HDIofGrid.R is not part of the sources): indices by
\* descending mass, ties in original order, accumulated until the cumulative
\* mass reaches credMass
RECURSIVE HDIaccumulate(_, _, _, _)
HDIaccumulate(probMassVec, credMass, included, cum) ==
  IF RGeq(cum, credMass) \/ Cardinality(included) = Len(probMassVec) THEN included
  ELSE
    LET rest == (1..Len(probMassVec)) \ included
        top == {i \in rest : \A j \in rest : ~RGt(probMassVec[j], probMassVec[i])}
        best == CHOOSE i \in top : \A j \in top : i <= j
    IN HDIaccumulate(probMassVec, credMass, included \cup {best},
                     RAdd(cum, probMassVec[best]))

RECURSIVE SetSum(_, _)
SetSum(v, S) ==
  IF S = {} THEN Zero
  ELSE LET i == CHOOSE x \in S : TRUE IN RAdd(v[i], SetSum(v, S \ {i}))

\* the least mass among the indices S: the waterline
MinOver(v, S) ==
  IF \E i \in S : IsNaN(v[i]) THEN NaN
  ELSE v[CHOOSE i \in S : \A j \in S : RGeq(v[j], v[i])]

HDIofGrid(probMassVec, credMass) ==
  LET idx == HDIaccumulate(probMassVec, credMass, {}, Zero)
  IN [indices |-> idx, mass |-> SetSum(probMassVec, idx),
      height |-> IF idx = {} THEN NaN ELSE MinOver(probMassVec, idx)]

NoHDI == [indices |-> {}, mass |-> Unset, height |-> Unset]

\* lines 44-45: the evidence and the posterior of the likelihood lik
Normalize(z, n, lik, pth) ==
  IF ~Broadcastable(lik, pth)
  THEN \* line 44 raises ValueError: operands could not be broadcast together
       [ones |-> z, N |-> n, p_data_given_theta |-> lik, p_data |-> Unset,
        p_theta_given_data |-> Unset, outcome |-> "ValueError"]
  ELSE [ones |-> z, N |-> n, p_data_given_theta |-> lik,
        p_data |-> Evidence(lik, pth),
        p_theta_given_data |-> Posterior(lik, pth, Evidence(lik, pth)),
        outcome |-> "returned"]

\* lines 34-45: the summary values, the likelihood, the evidence and the
\* posterior, with the module-level Data being D
Update(th, pth, rd, D) ==
  Normalize(Ones(D, rd), NFlips(D, rd),
            Likelihood(th, Ones(D, rd), NFlips(D, rd)), pth)

\* lines 47-123: the values the plotting block computes from the update u
Summaries(u, th, pth, cr, ntp) ==
  IF u.outcome = "returned"
  THEN [ones |-> u.ones, N |-> u.N,
        p_data_given_theta |-> u.p_data_given_theta,
        p_data |-> u.p_data,
        p_theta_given_data |-> u.p_theta_given_data,
        thinIdx |-> Thin(Len(th), ntp),
        meanTheta |-> Mean(th, pth),
        meanThetaGivenData |-> Mean(th, u.p_theta_given_data),
        HDIinfo |-> HDIofGrid(u.p_theta_given_data, cr),
        outcome |-> u.outcome]
  ELSE [ones |-> u.ones, N |-> u.N,
        p_data_given_theta |-> u.p_data_given_theta,
        p_data |-> u.p_data,
        p_theta_given_data |-> u.p_theta_given_data,
        thinIdx |-> Unset, meanTheta |-> Unset, meanThetaGivenData |-> Unset,
        HDIinfo |-> NoHDI, outcome |-> u.outcome]

\* bern_grid, lines 34-125, run with the module-level Data being D
bern_grid(th, pth, rd, cr, ntp, D) ==
  Summaries(Update(th, pth, rd, D), th, pth, cr, ntp)

\* ---- the state machine ----
Init ==
  /\ Data = <<1>>
  /\ theta \in Grids
  /\ p_theta \in UNION {PriorsOfLen(n) : n \in {Len(theta), Len(theta) - 1} \ {0}}
  /\ real_data \in Flips(MaxObs)
  /\ credib \in CredibSet
  /\ n_to_plot \in PlotSet
  /\ ones = -1
  /\ N = -1
  /\ p_data_given_theta = Unset
  /\ p_data = Unset
  /\ p_theta_given_data = Unset
  /\ thinIdx = Unset
  /\ meanTheta = Unset
  /\ meanThetaGivenData = Unset
  /\ HDIinfo = NoHDI
  /\ outcome = "idle"

\* one invocation bern_grid(theta, p_theta, real_data, credib, n_to_plot)
Call ==
  /\ UNCHANGED <<Data, theta, p_theta, real_data, credib, n_to_plot>>
  /\ \E r \in {bern_grid(theta, p_theta, real_data, credib, n_to_plot, Data)} :
       /\ ones' = r.ones
       /\ N' = r.N
       /\ p_data_given_theta' = r.p_data_given_theta
       /\ p_data' = r.p_data
       /\ p_theta_given_data' = r.p_theta_given_data
       /\ thinIdx' = r.thinIdx
       /\ meanTheta' = r.meanTheta
       /\ meanThetaGivenData' = r.meanThetaGivenData
       /\ HDIinfo' = r.HDIinfo
       /\ outcome' = r.outcome

\* line 133: the module-level assignment to Data
AssignData(d) ==
  /\ d # Data
  /\ Data' = d
  /\ UNCHANGED <<theta, p_theta, real_data, credib, n_to_plot, ones, N,
                 p_data_given_theta, p_data, p_theta_given_data, thinIdx,
                 meanTheta, meanThetaGivenData, HDIinfo, outcome>>

Next ==
  \/ Call
  \/ \E d \in DataVectors : AssignData(d)

Spec == Init /\ [][Next]_vars


\* ---- the properties ----
called == outcome # "idle"
returned == outcome = "returned"

\* a grid and a prior of the same length (the sets above make the grid values
\* lie in [0,1], the prior non-negative with sum 1, the observations 0/1)
ValidInput == Len(p_theta) = Len(theta)

\* the observation sequences with the length and the number of 1's of rd
Permutations(rd) == {o \in [1..Len(rd) -> {0, 1}] : CountOnes(o) = CountOnes(rd)}

\* C1: for every valid input whose evidence is non-zero, the returned
\* posterior has every entry non-negative and its entries sum to 1.
C1_PosteriorNormalized ==
  (returned /\ ValidInput /\ p_data # Zero) =>
    /\ \A i \in 1..Len(p_theta_given_data) : RGeq(p_theta_given_data[i], Zero)
    /\ Sum(p_theta_given_data) = One

\* C2: when the evidence is zero the update ends in a DegenerateEvidence
\* failure and returns no posterior.
C2_ZeroEvidenceRaises ==
  (called /\ p_data = Zero) =>
    /\ outcome = "DegenerateEvidence"
    /\ p_theta_given_data = Unset

\* C3: when grid and prior differ in length the update ends in an InvalidInput
\* failure before likelihood, evidence or posterior is computed.
C3_LengthMismatchRejected ==
  (called /\ Len(theta) # Len(p_theta)) =>
    /\ outcome = "InvalidInput"
    /\ p_data_given_theta = Unset
    /\ p_data = Unset
    /\ p_theta_given_data = Unset

\* C4: with an empty observations argument the likelihood is 1 at every grid
\* point and the posterior equals the prior elementwise.
C4_EmptyObservationsKeepPrior ==
  (returned /\ ValidInput /\ real_data = <<>>) =>
    /\ \A i \in 1..Len(p_data_given_theta) : p_data_given_theta[i] = One
    /\ p_theta_given_data = p_theta

\* C5: the likelihood at every grid point is theta^ones * (1-theta)^(M-ones)
\* with ones and M the number of 1's and the length of the observations
\* argument.
C5_LikelihoodOfArgument ==
  called =>
    p_data_given_theta =
      [i \in 1..Len(theta) |->
         RMul(RPow(theta[i], CountOnes(real_data)),
              RPow(OneMinus(theta[i]), Len(real_data) - CountOnes(real_data)))]

\* C6: the HDI's included indices carry a posterior mass >= the requested
\* credible mass, its height is the least posterior mass among them, and every
\* excluded index has a posterior mass <= that height.
C6_HDICoversCredibleMass ==
  returned =>
    /\ HDIinfo.indices # {}
    /\ HDIinfo.mass = SetSum(p_theta_given_data, HDIinfo.indices)
    /\ RGeq(HDIinfo.mass, credib)
    /\ \E i \in HDIinfo.indices : p_theta_given_data[i] = HDIinfo.height
    /\ \A i \in HDIinfo.indices : RGeq(p_theta_given_data[i], HDIinfo.height)
    /\ \A i \in (1..Len(p_theta_given_data)) \ HDIinfo.indices :
         RGeq(HDIinfo.height, p_theta_given_data[i])

\* C7: likelihood, evidence and posterior of a call are those of the call with
\* any permutation of its observations argument, grid and prior being the same.
\* (The steps that leave Data alone are the calls.)
C7_PermutationInvariant ==
  [][(Data' = Data) =>
       \A o \in Permutations(real_data) :
         \E r \in {Update(theta, p_theta, o, Data)} :
           /\ r.p_data_given_theta = p_data_given_theta'
           /\ r.p_data = p_data'
           /\ r.p_theta_given_data = p_theta_given_data'
           /\ r.outcome = outcome']_vars

\* a call has returned for observations that have another permutation
C7_Witness == returned /\ real_data = <<0, 1>> /\ ValidInput /\ IsFinite(p_data)

\* C8: a second call with the same arguments yields the posterior, evidence
\* and HDI of the first, whatever happened in between.
C8_SameArgumentsSameResult ==
  [][(Call /\ called) =>
       /\ p_theta_given_data' = p_theta_given_data
       /\ p_data' = p_data
       /\ HDIinfo' = HDIinfo]_vars

IsUniform(pth) == \A i \in 1..Len(pth) : pth[i] = pth[1]

\* C9: with a uniform prior and observations that are all 1s, at least one,
\* and a non-zero evidence, the posterior mean exceeds the prior mean.  Stated
\* on grids of two or more points: on a one-point grid both means are that
\* point, whatever the update computes.
C9_AllOnesRaiseMean ==
  (/\ returned
   /\ ValidInput
   /\ Len(theta) >= 2
   /\ IsUniform(p_theta)
   /\ real_data # <<>>
   /\ CountOnes(real_data) = Len(real_data)
   /\ p_data # Zero) =>
    RGt(meanThetaGivenData, meanTheta)

IndexSet(idx) == {idx[i] : i \in 1..Len(idx)}

\* C10: after the thinning step the plotted index set is defined, holds only
\* valid indices of the grid and the last grid point, and is all N indices when
\* n_to_plot is omitted or >= N.
C10_ThinnedIndexSet ==
  returned =>
    /\ thinIdx # Unset
    /\ IndexSet(thinIdx) \subseteq 0..(Len(theta) - 1)
    /\ (Len(theta) - 1) \in IndexSet(thinIdx)
    /\ (n_to_plot = None \/ n_to_plot >= Len(theta)) =>
         IndexSet(thinIdx) = 0..(Len(theta) - 1)

====
